---- MODULE Spec2Model ----
(***************************************************************************)
(* KIOSCO POS: the sales, catalog and cash services of micro-saas.py over  *)
(* the SQLite store kiosco_pos.db.  Every repository method opens its own  *)
(* connection and commits when it returns (ConexionBaseDatos.__exit__), so *)
(* every repository call is one committed step of the store.               *)
(*                                                                         *)
(* Text values are sequences of one-character strings.  Money is counted   *)
(* in whole units.  Time is a clock of ticks, DayLen ticks to a day; the   *)
(* store stamps rows in UTC (CURRENT_TIMESTAMP) and the services ask for   *)
(* "today" in local time (date.today()), tz ticks ahead of UTC.            *)
(***************************************************************************)
EXTENDS Integers, Sequences, FiniteSets, TLC

VARIABLES
    productos,    \* table productos: id -> row, for the ids that exist
    categorias,   \* table categorias: id -> row
    sigProd,      \* AUTOINCREMENT of productos: the next id
    ventas,       \* table ventas: the row of sale i is ventas[i]
    detalles,     \* table detalles_venta, in insertion order
    movimientos,  \* table movimientos_caja, in insertion order
    reloj,        \* the UTC clock, in ticks
    tz,           \* offset of the local time zone, in ticks ahead of UTC (< 0: behind)
    pv,           \* the sale in progress: ServicioPOS.procesar_venta or the checkout tab
    dlg,          \* the withdrawal dialog of the cash tab
    sug,          \* the SKUs suggested to the product dialogs that are open
    alDia,        \* every product row was added under the SKU suggested then
    ret,          \* what the last service call returned
    antes         \* the store as it was when the last service call began

vars == <<productos, categorias, sigProd, ventas, detalles, movimientos,
          reloj, tz, pv, dlg, sug, alDia, ret, antes>>

(***************************************************************************)
(* Bounds of the model.                                                    *)
(***************************************************************************)
MaxQty == 2        \* largest initial quantity on hand
MaxItemQty == 1    \* largest quantity requested by a line item
MaxLineas == 2     \* line items recorded in one run, over all its sales
MaxRetiros == 2    \* withdrawals recorded in one run
MaxMonto == 2      \* largest amount asked of a withdrawal
MaxReloj == 2      \* last tick of the clock
MaxTz == 1         \* largest offset of local time from UTC, either way, in ticks
MaxAltas == 2      \* product rows inserted in one run
MaxDialogos == 2   \* product dialogs open at once

\* Ticks in a day: every offset -MaxTz..MaxTz is shorter than a day.
DayLen == MaxTz + 1

\* Sum of f[i] over the sequence f.
RECURSIVE Suma(_)
Suma(s) == IF s = <<>> THEN 0 ELSE Head(s) + Suma(Tail(s))

(***************************************************************************)
(* Domain models (dataclasses Producto, ItemCarrito).                      *)
(***************************************************************************)
\* A row of productos as RepositorioProducto.agregar stores it.
Producto(sku, nombre, cantidad, precio, stock_minimo, categoria) ==
    [sku |-> sku, nombre |-> nombre, cantidad |-> cantidad, precio |-> precio,
     stock_minimo |-> stock_minimo, categoria |-> categoria]

\* A line of the cart: the snapshot of a product taken when it was added.
ItemCarrito(producto_id, sku, nombre, cantidad, precio_unitario) ==
    [producto_id |-> producto_id, sku |-> sku, nombre |-> nombre,
     cantidad |-> cantidad, precio_unitario |-> precio_unitario,
     subtotal |-> cantidad * precio_unitario]

\* Text values used by the catalog rows of the example data.
BEB001 == <<"B", "E", "B", "0", "0", "1">>
SNA001 == <<"S", "N", "A", "0", "0", "1">>

\* The SKU and the name the cart copied from the product it was shown.
SkuItem(id) == IF id = 1 THEN BEB001 ELSE IF id = 2 THEN SNA001 ELSE <<"X">>
NombreItem(id) == IF id = 1 THEN <<"C">> ELSE IF id = 2 THEN <<"L">> ELSE <<"Z">>

\* Quantities a line item may ask for (the services do not check the sign).
ItemQtys == {-1} \cup (1..MaxItemQty)

\* Product ids a line item may name; the last one never exists.
ItemIds == 1..3

\* The line items and the carts handed to procesar_venta.  A line naming the
\* id that does not exist is refused before its quantity is read, so one
\* quantity stands for all of them.
Items == {ItemCarrito(id, SkuItem(id), NombreItem(id), q, id) :
             id \in ItemIds \ {3}, q \in ItemQtys}
             \cup {ItemCarrito(3, SkuItem(3), NombreItem(3), 1, 3)}

SeqsUpTo(S, n) == UNION {[1..k -> S] : k \in 0..n}

\* The carts that still fit in the run.
Carritos == SeqsUpTo(Items, MaxLineas - Len(detalles))

(***************************************************************************)
(* RepositorioProducto.                                                    *)
(***************************************************************************)
NoRow == [nada |-> TRUE]

\* SELECT * FROM productos WHERE id = ?  (None when there is no such row)
obtener_por_id(prods, producto_id) ==
    IF producto_id \in DOMAIN prods THEN prods[producto_id] ELSE NoRow

\* Faulty variant: the quantity compared with ">" in the WHERE clause.
actualizar_stock_ok_estricto(prods, producto_id, cantidad_vendida) ==
    /\ producto_id \in DOMAIN prods
    /\ prods[producto_id].cantidad > cantidad_vendida

\* Does the UPDATE of actualizar_stock touch a row (cursor.rowcount > 0)?
actualizar_stock_ok(prods, producto_id, cantidad_vendida) ==
    /\ producto_id \in DOMAIN prods
    /\ prods[producto_id].cantidad >= cantidad_vendida

\* Faulty variant: the UPDATE without its guard "AND cantidad >= ?".
actualizar_stock_sin_guarda(prods, producto_id, cantidad_vendida) ==
    IF producto_id \in DOMAIN prods
    THEN [prods EXCEPT ![producto_id].cantidad = @ - cantidad_vendida]
    ELSE prods

\* UPDATE productos SET cantidad = cantidad - ? WHERE id = ? AND cantidad >= ?
actualizar_stock(prods, producto_id, cantidad_vendida) ==
    IF actualizar_stock_ok(prods, producto_id, cantidad_vendida)
    THEN [prods EXCEPT ![producto_id].cantidad = @ - cantidad_vendida]
    ELSE prods

(***************************************************************************)
(* RepositorioVenta.                                                       *)
(***************************************************************************)
\* Faulty variant: the SKU bound to both text columns of the line.
FilasDetalleSkuDosVeces(items, venta_id) ==
    [i \in 1..Len(items) |->
        [venta_id |-> venta_id, producto_id |-> items[i].producto_id,
         sku |-> items[i].sku, nombre_producto |-> items[i].sku,
         cantidad |-> items[i].cantidad,
         precio_unitario |-> items[i].precio_unitario,
         subtotal |-> items[i].subtotal]]

\* The detalles_venta rows registrar_venta inserts for the sale venta_id.
FilasDetalle(items, venta_id) ==
    [i \in 1..Len(items) |->
        [venta_id |-> venta_id, producto_id |-> items[i].producto_id,
         sku |-> items[i].sku, nombre_producto |-> items[i].nombre,
         cantidad |-> items[i].cantidad,
         precio_unitario |-> items[i].precio_unitario,
         subtotal |-> items[i].subtotal]]

\* The ventas row registrar_venta inserts; fecha is CURRENT_TIMESTAMP (UTC).
FilaVenta(total, metodo_pago, ahora) ==
    [total |-> total, metodo_pago |-> metodo_pago, fecha |-> ahora]

\* sum(item.subtotal for item in items)
TotalCarrito(items) == Suma([i \in 1..Len(items) |-> items[i].subtotal])

(***************************************************************************)
(* ServicioPOS.procesar_venta.                                             *)
(***************************************************************************)
\* Faulty variant: no check of the empty cart.
CarritoVacioNunca(items) == FALSE

\* "if not items"
CarritoVacio(items) == items = <<>>

\* The line item fails the check of the validation loop.
ItemRechazado(prods, item) ==
    \/ obtener_por_id(prods, item.producto_id) = NoRow
    \/ obtener_por_id(prods, item.producto_id).cantidad < item.cantidad

\* Faulty variant: the validation loop looks at the first line item only.
validar_solo_primero(prods, items) ==
    IF items # <<>> /\ ItemRechazado(prods, items[1]) THEN 1 ELSE 0

\* The validation loop: the position of the first line item it rejects, 0 when
\* it rejects none.  It reads one product per line item up to that position.
validar(prods, items) ==
    IF \E i \in 1..Len(items) : ItemRechazado(prods, items[i])
    THEN CHOOSE i \in 1..Len(items) :
            /\ ItemRechazado(prods, items[i])
            /\ \A j \in 1..(i - 1) : ~ItemRechazado(prods, items[j])
    ELSE 0

Idle == [pc |-> "idle"]

\* What a call returned: success flag, sale id (0 for None), and the number of
\* queries and of committed writes it made on the store.
Retorno(op, exito, venta_id, lecturas, escrituras) ==
    [op |-> op, fin |-> TRUE, exito |-> exito, venta_id |-> venta_id,
     lecturas |-> lecturas, escrituras |-> escrituras]

EnCurso(op) ==
    [op |-> op, fin |-> FALSE, exito |-> FALSE, venta_id |-> 0,
     lecturas |-> 0, escrituras |-> 0]

\* The return of a call that ended in its "except Exception" clause.
Excepcion(r) == r @@ [excepcion |-> TRUE]

\* The store, the clock and the argument of a call, as the call finds them.
Foto(arg) ==
    [productos |-> productos, categorias |-> categorias, ventas |-> ventas,
     detalles |-> detalles, movimientos |-> movimientos, reloj |-> reloj,
     arg |-> arg]

Libre == pv = Idle /\ dlg = [abierto |-> FALSE]

\* The call up to the commit of registrar_venta: the empty-cart check, the
\* validation loop, the total and the insert of the sale and its lines.
POS_procesar_venta(items, metodo_pago) ==
    /\ Libre
    /\ antes' = Foto(items)
    /\ UNCHANGED <<productos, categorias, sigProd, movimientos, reloj, tz, dlg, sug, alDia>>
    /\ IF CarritoVacio(items)
       THEN /\ ret' = Retorno("POS.procesar_venta", FALSE, 0, 0, 0)
            /\ UNCHANGED <<ventas, detalles, pv>>
       ELSE IF validar(productos, items) # 0
       THEN /\ ret' = Retorno("POS.procesar_venta", FALSE, 0,
                              validar(productos, items), 0)
            /\ UNCHANGED <<ventas, detalles, pv>>
       ELSE /\ ventas' = Append(ventas,
                            FilaVenta(TotalCarrito(items), metodo_pago, reloj))
            /\ detalles' = detalles \o FilasDetalle(items, Len(ventas) + 1)
            /\ IF items = <<>>
               THEN /\ pv' = pv
                    /\ ret' = Retorno("POS.procesar_venta", TRUE,
                                      Len(ventas) + 1, 0, 1)
               ELSE /\ pv' = [pc |-> "stock", items |-> items, idx |-> 1,
                              venta_id |-> Len(ventas) + 1]
                    /\ ret' = [EnCurso("POS.procesar_venta") EXCEPT
                                  !.lecturas = Len(items), !.escrituras = 1]

\* registrar_venta raises (the store rejects the transaction): its connection
\* rolls back and procesar_venta returns the error.
POS_procesar_venta_error_registro(items) ==
    /\ Libre
    /\ ~CarritoVacio(items)
    /\ validar(productos, items) = 0
    /\ antes' = Foto(items)
    /\ ret' = Retorno("POS.procesar_venta", FALSE, 0, Len(items), 0)
    /\ UNCHANGED <<productos, categorias, sigProd, ventas, detalles,
                   movimientos, reloj, tz, pv, dlg, sug, alDia>>

\* One turn of the loop "for item in items: actualizar_stock(...)": one
\* committed UPDATE, whose row count the caller does not look at.  After the
\* last turn the call returns success.
POS_actualizar_stock ==
    /\ pv.pc = "stock"
    /\ productos' = actualizar_stock(productos, pv.items[pv.idx].producto_id,
                                     pv.items[pv.idx].cantidad)
    /\ IF pv.idx = Len(pv.items)
       THEN /\ pv' = Idle
            /\ ret' = Retorno("POS.procesar_venta", TRUE, pv.venta_id,
                              ret.lecturas, ret.escrituras + 1)
       ELSE /\ pv' = [pv EXCEPT !.idx = @ + 1]
            /\ ret' = [ret EXCEPT !.escrituras = @ + 1]
    /\ UNCHANGED <<categorias, sigProd, ventas, detalles, movimientos,
                   reloj, tz, dlg, sug, alDia, antes>>

\* actualizar_stock raises in some turn of the loop: the except clause of
\* procesar_venta returns the error; what was committed before stays.
POS_actualizar_stock_error ==
    /\ pv.pc = "stock"
    /\ pv' = Idle
    /\ ret' = Retorno("POS.procesar_venta", FALSE, 0, ret.lecturas, ret.escrituras)
    /\ UNCHANGED <<productos, categorias, sigProd, ventas, detalles,
                   movimientos, reloj, tz, dlg, sug, alDia, antes>>

(***************************************************************************)
(* ServicioVenta.procesar_venta.                                           *)
(***************************************************************************)
SV_procesar_venta(items, metodo_pago) ==
    /\ Libre
    /\ antes' = Foto(items)
    /\ UNCHANGED <<productos, categorias, sigProd, movimientos, reloj, tz,
                   pv, dlg, sug, alDia>>
    /\ IF CarritoVacio(items)
       THEN /\ ret' = Retorno("SV.procesar_venta", FALSE, 0, 0, 0)
            /\ UNCHANGED <<ventas, detalles>>
       ELSE /\ ventas' = Append(ventas,
                            FilaVenta(TotalCarrito(items), metodo_pago, reloj))
            /\ detalles' = detalles \o FilasDetalle(items, Len(ventas) + 1)
            /\ ret' = Retorno("SV.procesar_venta", TRUE, Len(ventas) + 1, 0, 1)

\* registrar_venta raises: nothing is stored and the error is returned.
SV_procesar_venta_error(items) ==
    /\ Libre
    /\ ~CarritoVacio(items)
    /\ antes' = Foto(items)
    /\ ret' = Retorno("SV.procesar_venta", FALSE, 0, 0, 0)
    /\ UNCHANGED <<productos, categorias, sigProd, ventas, detalles,
                   movimientos, reloj, tz, pv, dlg, sug, alDia>>

(***************************************************************************)
(* The sales specification: a catalog of two products, carts of up to      *)
(* MaxLineas lines in all.                                                    *)
(***************************************************************************)
InitComun ==
    /\ ventas = <<>>
    /\ detalles = <<>>
    /\ movimientos = <<>>
    /\ reloj = 0
    /\ pv = Idle
    /\ dlg = [abierto |-> FALSE]
    /\ sug = <<>>
    /\ alDia = TRUE
    /\ ret = Retorno("ninguna", TRUE, 0, 0, 0)

InitVenta ==
    /\ InitComun
    /\ \E q1, q2 \in 0..MaxQty :
          productos = (1 :> Producto(BEB001, <<"C">>, q1, 1, 1, <<"B">>)) @@
                      (2 :> Producto(SNA001, <<"L">>, q2, 2, 1, <<"S">>))
    /\ categorias = <<>>
    /\ sigProd = 3
    /\ tz = 0
    /\ antes = Foto(<<>>)

NextVenta ==
    \/ \E items \in Carritos : POS_procesar_venta(items, "EFECTIVO")
    \/ \E items \in Carritos : POS_procesar_venta_error_registro(items)
    \/ POS_actualizar_stock
    \/ POS_actualizar_stock_error

SpecVenta == InitVenta /\ [][NextVenta]_vars

(***************************************************************************)
(* Properties of the sale path.                                            *)
(***************************************************************************)
\* The quantity the lines of the sale venta_id ask of the product id.
RECURSIVE CantidadEnLineas(_, _, _)
CantidadEnLineas(filas, venta_id, id) ==
    IF filas = <<>> THEN 0
    ELSE (IF Head(filas).venta_id = venta_id /\ Head(filas).producto_id = id
          THEN Head(filas).cantidad ELSE 0)
         + CantidadEnLineas(Tail(filas), venta_id, id)

EsPOSVenta == ret.op = "POS.procesar_venta"

\* C1: every product's stored quantity is >= 0 in every reachable state, the
\* states between the per-item decrements of one sale included.
C1_StockNuncaNegativo ==
    \A id \in DOMAIN productos : productos[id].cantidad >= 0

\* A successful sale whose lines ask, of one product, more than it had: the
\* guard of the UPDATE refused a decrement and the quantity stopped at 0.
C1_Witness ==
    /\ EsPOSVenta /\ ret.fin /\ ret.exito
    /\ \E id \in DOMAIN productos :
          /\ productos[id].cantidad = 0
          /\ CantidadEnLineas(detalles, ret.venta_id, id)
                > antes.productos[id].cantidad

\* C2: a cart with a line item whose product is missing or whose quantity
\* exceeds the product's live quantity is rejected: failure, no sale id, no
\* row added to ventas or detalles_venta, no product quantity changed.
C2_ItemInvalidoRechazaTodo ==
    (/\ EsPOSVenta
     /\ \E i \in 1..Len(antes.arg) :
           \/ antes.arg[i].producto_id \notin DOMAIN antes.productos
           \/ antes.productos[antes.arg[i].producto_id].cantidad
                 < antes.arg[i].cantidad)
    => /\ ret.fin /\ ~ret.exito /\ ret.venta_id = 0
       /\ ventas = antes.ventas
       /\ detalles = antes.detalles
       /\ productos = antes.productos

\* A rejected cart whose first line was acceptable and whose second was not.
C2_Witness ==
    /\ EsPOSVenta /\ ret.fin /\ ~ret.exito
    /\ Len(antes.arg) >= 2
    /\ antes.arg[1].producto_id \in DOMAIN antes.productos
    /\ antes.productos[antes.arg[1].producto_id].cantidad
          >= antes.arg[1].cantidad
    /\ \/ antes.arg[2].producto_id \notin DOMAIN antes.productos
       \/ antes.productos[antes.arg[2].producto_id].cantidad
             < antes.arg[2].cantidad

\* C3: after a successful sale every product's quantity has gone down by
\* exactly the sum of the quantities of the sale's lines that name it.
C3_StockReconciliaConLineas ==
    (EsPOSVenta /\ ret.fin /\ ret.exito)
    => \A id \in DOMAIN antes.productos :
          antes.productos[id].cantidad - productos[id].cantidad
             = CantidadEnLineas(detalles, ret.venta_id, id)

\* C5: whenever the call returns failure, ventas and detalles_venta hold no
\* row of the attempt and every product quantity is what it was.
C5_FalloSinEfectos ==
    (EsPOSVenta /\ ret.fin /\ ~ret.exito)
    => /\ ventas = antes.ventas
       /\ detalles = antes.detalles
       /\ productos = antes.productos

\* C20: the sale path only ever decrements: at no point of an execution of
\* ServicioPOS.procesar_venta, for any list of line items, is a product's
\* quantity higher than it was before the call.
C20_VentaSoloDecrementa ==
    EsPOSVenta =>
       \A id \in DOMAIN antes.productos :
          productos[id].cantidad <= antes.productos[id].cantidad

(***************************************************************************)
(* The day's sales and withdrawals (RepositorioVenta) and the cash drawer  *)
(* (ServicioPOS, ServicioVenta, the cash tab).                             *)
(***************************************************************************)
\* DATE(fecha): the date of a stored timestamp, which is UTC.
DATE(fecha) == fecha \div DayLen

\* date.today(): the local date at the UTC instant ahora.
Hoy(ahora) == (ahora + tz) \div DayLen

\* Faulty variant: every sale of the table, whatever its date.
obtener_ventas_todas(vs, hoy) == vs

\* SELECT * FROM ventas WHERE DATE(fecha) = hoy
RECURSIVE obtener_ventas_dia(_, _)
obtener_ventas_dia(vs, hoy) ==
    IF vs = <<>> THEN <<>>
    ELSE (IF DATE(Head(vs).fecha) = hoy THEN <<Head(vs)>> ELSE <<>>)
         \o obtener_ventas_dia(Tail(vs), hoy)

\* SELECT COALESCE(SUM(monto), 0) FROM movimientos_caja
\* WHERE DATE(fecha) = hoy AND tipo = 'RETIRO'
RECURSIVE total_retiros_dia(_, _)
total_retiros_dia(movs, hoy) ==
    IF movs = <<>> THEN 0
    ELSE (IF DATE(Head(movs).fecha) = hoy /\ Head(movs).tipo = "RETIRO"
          THEN Head(movs).monto ELSE 0)
         + total_retiros_dia(Tail(movs), hoy)

\* sum(v['total'] for v in ventas)
TotalVentas(vs) == Suma([i \in 1..Len(vs) |-> vs[i].total])

\* ServicioPOS.efectivo_disponible
efectivo_disponible(vs, movs, hoy) ==
    TotalVentas(obtener_ventas_dia(vs, hoy)) - total_retiros_dia(movs, hoy)

\* INSERT INTO movimientos_caja (tipo, monto, concepto) VALUES ('RETIRO', ?, ?)
FilaRetiro(monto, ahora) == [tipo |-> "RETIRO", monto |-> monto, fecha |-> ahora]

\* Amounts asked of a withdrawal.
Montos == {-1} \cup (0..MaxMonto)

\* Faulty variant: the check against the balance is left out.
RetiroAceptadoSinSaldo(monto, disponible) == monto > 0

\* The two checks of registrar_retiro (ServicioPOS and ServicioVenta alike).
RetiroAceptado(monto, disponible) == ~(monto <= 0) /\ ~(monto > disponible)

\* ServicioPOS.registrar_retiro
POS_registrar_retiro(monto) ==
    /\ Libre
    /\ antes' = Foto(monto)
    /\ IF RetiroAceptado(monto,
             efectivo_disponible(ventas, movimientos, Hoy(reloj)))
       THEN /\ Len(movimientos) < MaxRetiros
            /\ movimientos' = Append(movimientos, FilaRetiro(monto, reloj))
            /\ ret' = Retorno("POS.registrar_retiro", TRUE, 0, 2, 1)
       ELSE /\ movimientos' = movimientos
            /\ ret' = Retorno("POS.registrar_retiro", FALSE, 0,
                              IF monto <= 0 THEN 0 ELSE 2, 0)
    /\ UNCHANGED <<productos, categorias, sigProd, ventas, detalles, reloj, tz,
                   pv, dlg, sug, alDia>>

\* The insert of the withdrawal raises: the error is returned.
POS_registrar_retiro_error(monto) ==
    /\ Libre
    /\ RetiroAceptado(monto, efectivo_disponible(ventas, movimientos, Hoy(reloj)))
    /\ antes' = Foto(monto)
    /\ ret' = Excepcion(Retorno("POS.registrar_retiro", FALSE, 0, 2, 0))
    /\ UNCHANGED <<productos, categorias, sigProd, ventas, detalles,
                   movimientos, reloj, tz, pv, dlg, sug, alDia>>

\* Faulty variant: the dialog computes sales minus withdrawals.
DisponibleDialogoSaldo(vs, movs, hoy) == efectivo_disponible(vs, movs, hoy)

\* "disponible = self.servicio_venta.total_retiros_dia()  # Simplificado"
DisponibleDialogo(vs, movs, hoy) == total_retiros_dia(movs, hoy)

\* PestanaCaja.registrar_retiro: the modal dialog opens and reads disponible.
Caja_registrar_retiro ==
    /\ Libre
    /\ dlg' = [abierto |-> TRUE,
               disponible |-> DisponibleDialogo(ventas, movimientos, Hoy(reloj))]
    /\ UNCHANGED <<productos, categorias, sigProd, ventas, detalles,
                   movimientos, reloj, tz, pv, sug, alDia, ret, antes>>

\* The button of the dialog: ServicioVenta.registrar_retiro with the value
\* read when the dialog opened; the dialog closes on success only.
Caja_confirmar(monto) ==
    /\ pv = Idle /\ dlg.abierto
    /\ antes' = Foto(<<>>)
    /\ IF RetiroAceptado(monto, dlg.disponible)
       THEN /\ Len(movimientos) < MaxRetiros
            /\ movimientos' = Append(movimientos, FilaRetiro(monto, reloj))
            /\ dlg' = [abierto |-> FALSE]
            /\ ret' = Retorno("SV.registrar_retiro", TRUE, 0, 0, 1)
       ELSE /\ UNCHANGED <<movimientos, dlg>>
            /\ ret' = Retorno("SV.registrar_retiro", FALSE, 0, 0, 0)
    /\ UNCHANGED <<productos, categorias, sigProd, ventas, detalles, reloj, tz,
                   pv, sug, alDia>>

\* The insert raises inside ServicioVenta.registrar_retiro.
Caja_confirmar_error(monto) ==
    /\ pv = Idle /\ dlg.abierto
    /\ RetiroAceptado(monto, dlg.disponible)
    /\ antes' = Foto(<<>>)
    /\ ret' = Retorno("SV.registrar_retiro", FALSE, 0, 0, 0)
    /\ UNCHANGED <<productos, categorias, sigProd, ventas, detalles,
                   movimientos, reloj, tz, pv, dlg, sug, alDia>>

\* The dialog is closed without a withdrawal.
Caja_cerrar ==
    /\ pv = Idle /\ dlg.abierto
    /\ dlg' = [abierto |-> FALSE]
    /\ UNCHANGED <<productos, categorias, sigProd, ventas, detalles,
                   movimientos, reloj, tz, pv, sug, alDia, ret, antes>>

\* Time passes.
Tick ==
    /\ pv = Idle
    /\ reloj < MaxReloj
    /\ reloj' = reloj + 1
    /\ UNCHANGED <<productos, categorias, sigProd, ventas, detalles,
                   movimientos, tz, pv, dlg, sug, alDia, ret, antes>>

(***************************************************************************)
(* The program as a whole: sales through both services, withdrawals        *)
(* through both paths, and the clock; one-line carts.                      *)
(***************************************************************************)
CarritosCaja ==
    SeqsUpTo({ItemCarrito(1, SkuItem(1), NombreItem(1), 1, 1)},
             IF Len(detalles) < MaxLineas THEN 1 ELSE 0)

Init ==
    /\ InitComun
    /\ productos = (1 :> Producto(BEB001, <<"C">>, MaxQty, 1, 1, <<"B">>)) @@
                   (2 :> Producto(SNA001, <<"L">>, MaxQty, 2, 1, <<"S">>))
    /\ categorias = <<>>
    /\ sigProd = 3
    /\ tz \in (0 - MaxTz)..MaxTz
    /\ antes = Foto(<<>>)

Next ==
    \/ \E items \in CarritosCaja : POS_procesar_venta(items, "EFECTIVO")
    \/ \E items \in CarritosCaja : POS_procesar_venta_error_registro(items)
    \/ POS_actualizar_stock
    \/ POS_actualizar_stock_error
    \/ \E items \in CarritosCaja : SV_procesar_venta(items, "EFECTIVO")
    \/ \E items \in CarritosCaja : SV_procesar_venta_error(items)
    \/ \E monto \in Montos : POS_registrar_retiro(monto)
    \/ \E monto \in Montos : POS_registrar_retiro_error(monto)
    \/ Caja_registrar_retiro
    \/ \E monto \in Montos : Caja_confirmar(monto)
    \/ \E monto \in Montos : Caja_confirmar_error(monto)
    \/ Caja_cerrar
    \/ Tick

Spec == Init /\ [][Next]_vars

(***************************************************************************)
(* Properties of the empty cart and of the cash drawer.                    *)
(***************************************************************************)
\* C4: procesar_venta with an empty cart, in ServicioPOS and ServicioVenta
\* alike, returns failure with no sale id without a single query or write on
\* the store.
C4_CarritoVacioSinAccesos ==
    (/\ ret.op \in {"POS.procesar_venta", "SV.procesar_venta"}
     /\ antes.arg = <<>>)
    => /\ ret.fin /\ ~ret.exito /\ ret.venta_id = 0
       /\ ret.lecturas = 0 /\ ret.escrituras = 0
       /\ ventas = antes.ventas
       /\ detalles = antes.detalles
       /\ productos = antes.productos
       /\ movimientos = antes.movimientos

\* An empty cart handed to ServicioPOS.procesar_venta after a sale was stored.
C4_Witness ==
    /\ ret.op = "POS.procesar_venta" /\ ret.fin
    /\ antes.arg = <<>>
    /\ ventas # <<>>

\* The local day on which a row stamped fecha was recorded.
DiaDeRegistro(fecha) == (fecha + tz) \div DayLen

\* The day's balance as the specification defines it: the totals of the sales
\* recorded on the day of the instant ahora minus the amounts of the
\* withdrawals recorded on that day.
SaldoDelDia(vs, movs, ahora) ==
    Suma([i \in 1..Len(vs) |->
            IF DiaDeRegistro(vs[i].fecha) = DiaDeRegistro(ahora)
            THEN vs[i].total ELSE 0])
    - Suma([i \in 1..Len(movs) |->
            IF /\ DiaDeRegistro(movs[i].fecha) = DiaDeRegistro(ahora)
               /\ movs[i].tipo = "RETIRO"
            THEN movs[i].monto ELSE 0])

\* C9: efectivo_disponible() is the sum of the totals of the sales recorded on
\* the current day minus the sum of the withdrawals recorded on the current
\* day; other days do not contribute and a day without activity gives 0.
C9_SaldoEsVentasMenosRetiros ==
    efectivo_disponible(ventas, movimientos, Hoy(reloj))
        = SaldoDelDia(ventas, movimientos, reloj)

EsRetiro == ret.op \in {"POS.registrar_retiro", "SV.registrar_retiro"}

\* C10: no withdrawal is recorded, through either path, with an amount above
\* the day's balance at that moment; hence the day's balance is never < 0.
C10_RetiroNuncaExcedeSaldo ==
    /\ (EsRetiro /\ ret.exito)
       => movimientos[Len(movimientos)].monto
             <= SaldoDelDia(antes.ventas, antes.movimientos, antes.reloj)
    /\ SaldoDelDia(ventas, movimientos, reloj) >= 0

\* C11: ServicioPOS.registrar_retiro succeeds exactly when 0 < amount <=
\* efectivo_disponible() (the store accepting the insert); on success one
\* RETIRO row with that amount is added and efectivo_disponible() is lower by
\* exactly the amount; on rejection no row is added.
C11_RetiroSiYSoloSiHaySaldo ==
    ret.op = "POS.registrar_retiro" =>
       LET monto == antes.arg
           disponible == efectivo_disponible(antes.ventas, antes.movimientos,
                                             Hoy(antes.reloj))
       IN  /\ ret.exito =>
                 /\ 0 < monto /\ monto <= disponible
                 /\ movimientos = Append(antes.movimientos,
                                         FilaRetiro(monto, antes.reloj))
                 /\ efectivo_disponible(ventas, movimientos, Hoy(antes.reloj))
                       = disponible - monto
           /\ ~ret.exito => movimientos = antes.movimientos
           /\ (0 < monto /\ monto <= disponible /\ "excepcion" \notin DOMAIN ret)
                 => ret.exito

(***************************************************************************)
(* Text: Python's str.upper(), SQLite's LIKE, the format "03d".            *)
(***************************************************************************)
\* The characters of the model, in the order of their UTF-8 encoding (the
\* BINARY collation of SQLite).  "N~" and "n~" stand for the letters N and n
\* with tilde, one character each, which are not ASCII.
Orden == <<"%", "0", "1", "2", "3", "4", "5", "6", "7", "8", "9",
           "A", "B", "C", "E", "L", "N", "S", "_",
           "a", "b", "c", "e", "l", "n", "s", "N~", "n~">>

\* The place of every character in that order.
TablaCodigo ==
    [c \in {Orden[i] : i \in 1..Len(Orden)} |->
        CHOOSE i \in 1..Len(Orden) : Orden[i] = c]

Codigo(c) == TablaCodigo[c]

\* The ASCII letters: Orden[i] is the upper case of Orden[i + 8].
AMinusASCII == [c \in {Orden[i] : i \in 12..18} |-> Orden[TablaCodigo[c] + 8]]

AMayusASCII == [c \in {Orden[i] : i \in 20..26} |-> Orden[TablaCodigo[c] - 8]]

EsMayusASCII(c) == c \in DOMAIN AMinusASCII
EsMinusASCII(c) == c \in DOMAIN AMayusASCII

\* Upper and lower case of one character in SQLite (LOWER(), LIKE): the
\* ASCII letters only.
MayusASCII(c) == IF EsMinusASCII(c) THEN AMayusASCII[c] ELSE c
MinusASCII(c) == IF EsMayusASCII(c) THEN AMinusASCII[c] ELSE c

\* str.upper() of one character: every letter.
Mayus(c) == IF c = "n~" THEN "N~" ELSE MayusASCII(c)

\* str.lower() of one character: every letter.
Minus(c) == IF c = "N~" THEN "n~" ELSE MinusASCII(c)

upper(s) == [i \in 1..Len(s) |-> Mayus(s[i])]

lower(s) == [i \in 1..Len(s) |-> Minus(s[i])]

\* SQLite's LOWER(s).
LOWER(s) == [i \in 1..Len(s) |-> MinusASCII(s[i])]

\* SQLite's  s LIKE pat : "%" stands for any run of characters, "_" for any
\* one character, every other character for itself, ASCII letters without
\* regard to case.
RECURSIVE LIKE(_, _)
LIKE(s, pat) ==
    IF pat = <<>> THEN s = <<>>
    ELSE IF Head(pat) = "%"
         THEN LIKE(s, Tail(pat)) \/ (s # <<>> /\ LIKE(Tail(s), pat))
         ELSE /\ s # <<>>
              /\ (Head(pat) = "_" \/ MayusASCII(Head(s)) = MayusASCII(Head(pat)))
              /\ LIKE(Tail(s), Tail(pat))

Digito(k) == <<"0", "1", "2", "3", "4", "5", "6", "7", "8", "9">>[k + 1]

\* str(n) for n >= 0.
RECURSIVE Decimal(_)
Decimal(n) ==
    IF n < 10 THEN <<Digito(n)>>
    ELSE Decimal(n \div 10) \o <<Digito(n % 10)>>

\* f"{numero:03d}": the decimal digits, with zeros in front up to 3 places.
Formato03d(numero) ==
    LET d == Decimal(numero)
    IN  IF Len(d) >= 3 THEN d
        ELSE [i \in 1..(3 - Len(d)) |-> "0"] \o d

(***************************************************************************)
(* Catalog: RepositorioCategoria, RepositorioProducto, ServicioCategoria,  *)
(* ServicioProducto.                                                       *)
(***************************************************************************)
\* A row of categorias as RepositorioCategoria.agregar stores it.
Categoria(nombre, prefijo) ==
    [nombre |-> upper(nombre), prefijo |-> upper(prefijo), activo |-> TRUE]

\* SELECT * FROM productos WHERE sku = ?   with  sku.upper()
obtener_por_sku(prods, sku) ==
    {id \in DOMAIN prods : prods[id].sku = upper(sku)}

\* SELECT COUNT(*) FROM productos WHERE sku LIKE 'prefijo%', plus one.
obtener_siguiente_numero_sku(prods, prefijo) ==
    Cardinality({id \in DOMAIN prods : LIKE(prods[id].sku, prefijo \o <<"%">>)})
    + 1

\* ServicioProducto.generar_sku_sugerido: "" when the category does not exist.
generar_sku_sugerido(cats, prods, categoria_id) ==
    IF categoria_id \notin DOMAIN cats THEN <<>>
    ELSE cats[categoria_id].prefijo
         \o Formato03d(obtener_siguiente_numero_sku(prods,
                                                    cats[categoria_id].prefijo))

\* Faulty variant: the SKU is stored as it was typed.
SkuAlmacenadoTalCual(sku) == sku

\* The SKU RepositorioProducto.agregar stores: producto.sku.upper()
SkuAlmacenado(sku) == upper(sku)

\* The constraint "sku TEXT UNIQUE" lets the row in.
SkuUnico(prods, sku) == \A id \in DOMAIN prods : prods[id].sku # sku

\* The product dialog asks for a suggestion and keeps it in its SKU field.
SP_generar_sku_sugerido(categoria_id) ==
    /\ pv = Idle
    /\ Len(sug) < MaxDialogos
    /\ antes' = Foto(categoria_id)
    /\ LET sku == generar_sku_sugerido(categorias, productos, categoria_id)
       IN  /\ ret' = [op |-> "SP.generar_sku_sugerido", fin |-> TRUE,
                      exito |-> TRUE, valor |-> sku]
           /\ sug' = IF sku = <<>> THEN sug ELSE Append(sug, sku)
    /\ UNCHANGED <<productos, categorias, sigProd, ventas, detalles,
                   movimientos, reloj, tz, pv, dlg, alDia>>

\* The SKU differs from every suggestion the generator would give right now.
NoSugerido(sku) ==
    \A c \in DOMAIN categorias :
        generar_sku_sugerido(categorias, productos, c) # sku

Quitar(s, k) == [i \in 1..(Len(s) - 1) |-> IF i < k THEN s[i] ELSE s[i + 1]]

\* Faulty variant: the quantity is not checked.
CamposInvalidosSinCantidad(producto) ==
    \/ producto.nombre = <<>>
    \/ producto.precio <= 0

\* The checks of the fields in ServicioProducto.agregar.
CamposInvalidos(producto) ==
    \/ producto.nombre = <<>>
    \/ producto.precio <= 0
    \/ producto.cantidad < 0

\* ServicioProducto.agregar with the product of the dialog k; the dialog
\* closes when the product is stored.
SP_agregar(k, producto) ==
    /\ pv = Idle
    /\ k \in 1..Len(sug)
    /\ producto.sku \in {sug[k], lower(sug[k])}
    /\ antes' = Foto(producto)
    /\ IF \/ obtener_por_sku(productos, producto.sku) # {}
          \/ CamposInvalidos(producto)
          \/ ~SkuUnico(productos, SkuAlmacenado(producto.sku))
       THEN /\ ret' = Retorno("SP.agregar", FALSE, 0, 1, 0)
            /\ UNCHANGED <<productos, sigProd, sug, alDia>>
       ELSE /\ sigProd <= MaxAltas
            /\ productos' = productos @@
                  (sigProd :> [producto EXCEPT
                                  !.sku = SkuAlmacenado(producto.sku)])
            /\ sigProd' = sigProd + 1
            /\ sug' = Quitar(sug, k)
            /\ alDia' = (alDia /\ ~NoSugerido(SkuAlmacenado(producto.sku)))
            /\ ret' = Retorno("SP.agregar", TRUE, sigProd, 1, 1)
    /\ UNCHANGED <<categorias, ventas, detalles, movimientos, reloj, tz, pv, dlg>>

\* The product dialog k is closed without saving.
SP_cancelar(k) ==
    /\ pv = Idle
    /\ k \in 1..Len(sug)
    /\ sug' = Quitar(sug, k)
    /\ UNCHANGED <<productos, categorias, sigProd, ventas, detalles,
                   movimientos, reloj, tz, pv, dlg, alDia, ret, antes>>

\* Faulty variant: the reference of detalles_venta to productos declared
\* ON DELETE CASCADE on a connection that enforces foreign keys.
detalles_tras_eliminar_cascada(filas, producto_id) ==
    SelectSeq(filas, LAMBDA f : f.producto_id # producto_id)

\* What the DELETE of a product does to detalles_venta: the reference
\* "FOREIGN KEY (producto_id) REFERENCES productos(id)" has no ON DELETE
\* action and the connections never turn foreign keys on, so nothing.
detalles_tras_eliminar(filas, producto_id) == filas

\* ServicioProducto.eliminar: DELETE FROM productos WHERE id = ?
SP_eliminar(producto_id) ==
    /\ pv = Idle
    /\ antes' = Foto(producto_id)
    /\ productos' = [id \in DOMAIN productos \ {producto_id} |-> productos[id]]
    /\ detalles' = detalles_tras_eliminar(detalles, producto_id)
    /\ ret' = Retorno("SP.eliminar", producto_id \in DOMAIN productos, 0, 0, 1)
    /\ UNCHANGED <<categorias, sigProd, ventas, movimientos, reloj,
                   tz, pv, dlg, sug, alDia>>

\* Faulty variant: the table without the constraint on prefijo.
CategoriaUnicaSoloNombre(cats, categoria_id, fila) ==
    \A c \in DOMAIN cats \ {categoria_id} : cats[c].nombre # fila.nombre

\* The constraints "nombre TEXT UNIQUE" and "prefijo TEXT UNIQUE" let the row
\* of the category categoria_id take these values.
CategoriaUnica(cats, categoria_id, fila) ==
    \A c \in DOMAIN cats \ {categoria_id} :
        cats[c].nombre # fila.nombre /\ cats[c].prefijo # fila.prefijo

\* ServicioCategoria.actualizar: the UPDATE of name and prefix, upper-cased,
\* with no validation; the UNIQUE constraints make it raise.
SC_actualizar(categoria_id, nombre, prefijo) ==
    /\ pv = Idle
    /\ antes' = Foto(<<categoria_id, nombre, prefijo>>)
    /\ IF /\ categoria_id \in DOMAIN categorias
          /\ CategoriaUnica(categorias, categoria_id, Categoria(nombre, prefijo))
       THEN /\ categorias' = [categorias EXCEPT
                                 ![categoria_id].nombre = upper(nombre),
                                 ![categoria_id].prefijo = upper(prefijo)]
            /\ ret' = Retorno("SC.actualizar", TRUE, 0, 0, 1)
       ELSE /\ categorias' = categorias
            /\ ret' = Retorno("SC.actualizar", FALSE, 0, 0, 0)
    /\ UNCHANGED <<productos, sigProd, ventas, detalles, movimientos, reloj,
                   tz, pv, dlg, sug, alDia>>

(***************************************************************************)
(* The catalog specification: one category, products added from the        *)
(* product dialogs and deleted, the prefix edited.                         *)
(***************************************************************************)
\* The products a dialog may hand to agregar, under the SKU sku.
ProductosNuevos(sku) ==
    {Producto(sku, <<"C">>, 1, precio, 5, <<"B">>) : precio \in {0, 1}}

\* The prefixes the edit dialog of a category may send.
PrefijosEdicion == {<<"B">>, <<"_">>}

InitCatalogo ==
    /\ InitComun
    /\ categorias = (1 :> Categoria(<<"B">>, <<"B">>))
    /\ productos = <<>>
    /\ sigProd = 1
    /\ tz = 0
    /\ antes = Foto(<<>>)

NextCatalogo ==
    \/ \E c \in 1..2 : SP_generar_sku_sugerido(c)
    \/ \E k \in 1..MaxDialogos :
          \E sku \in {sug[j] : j \in 1..Len(sug)}
                       \cup {lower(sug[j]) : j \in 1..Len(sug)} :
             \E producto \in ProductosNuevos(sku) : SP_agregar(k, producto)
    \/ \E k \in 1..MaxDialogos : SP_cancelar(k)
    \/ \E id \in 1..MaxAltas : SP_eliminar(id)
    \/ \E prefijo \in PrefijosEdicion : SC_actualizar(1, <<"B">>, prefijo)

SpecCatalogo == InitCatalogo /\ [][NextCatalogo]_vars

(***************************************************************************)
(* Properties of the SKUs.                                                 *)
(***************************************************************************)
IgualSinCaso(a, b) == upper(a) = upper(b)

\* s starts with p, letters compared without regard to case.
EmpiezaCon(s, p) ==
    /\ Len(s) >= Len(p)
    /\ \A i \in 1..Len(p) : Mayus(s[i]) = Mayus(p[i])

Skus(prods) == {prods[id].sku : id \in DOMAIN prods}

\* C6: no two product rows hold SKUs that are equal ignoring case, and an
\* insert under a SKU that a row already holds (ignoring case) is rejected
\* and leaves the products as they were.
C6_SkuUnicoSinCaso ==
    /\ \A i, j \in DOMAIN productos :
          i # j => ~IgualSinCaso(productos[i].sku, productos[j].sku)
    /\ (/\ ret.op = "SP.agregar"
        /\ \E id \in DOMAIN antes.productos :
              IgualSinCaso(antes.productos[id].sku, antes.arg.sku))
       => ~ret.exito /\ productos = antes.productos

\* Two dialogs got the same suggestion; one stored its product, the other's
\* insert of an otherwise valid product was rejected and its dialog stays open.
C6_Witness ==
    /\ ret.op = "SP.agregar" /\ ~ret.exito
    /\ antes.arg.precio > 0
    /\ antes.arg.sku \in Skus(antes.productos)
    /\ \E k \in 1..Len(sug) : sug[k] = antes.arg.sku

\* C7: for an existing category generar_sku_sugerido returns the prefix
\* followed by n+1 padded with zeros to 3 digits, n being the number of
\* products whose SKU starts with the prefix ignoring case, and changes no
\* stored state.
C7_SugerenciaEsPrefijoMasConteo ==
    (/\ ret.op = "SP.generar_sku_sugerido"
     /\ antes.arg \in DOMAIN antes.categorias)
    => /\ ret.valor =
             antes.categorias[antes.arg].prefijo
             \o Formato03d(
                  Cardinality({id \in DOMAIN antes.productos :
                      EmpiezaCon(antes.productos[id].sku,
                                 antes.categorias[antes.arg].prefijo)}) + 1)
       /\ productos = antes.productos
       /\ categorias = antes.categorias

\* C8: when every product was added under the SKU suggested at that moment,
\* whatever was deleted since, the SKU suggested for an existing category is
\* the SKU of no product of the catalog.
C8_SugerenciaSinColision ==
    alDia =>
       \A c \in DOMAIN categorias :
          generar_sku_sugerido(categorias, productos, c) \notin Skus(productos)

(***************************************************************************)
(* Search: RepositorioProducto.buscar_para_venta behind                    *)
(* ServicioProducto.buscar and ServicioPOS.buscar_productos.               *)
(***************************************************************************)
MaxCatalogo == 2   \* products of a small catalog

\* "LIMIT 10"
Limite == 10

\* f"%{termino}%"
Patron(termino) == <<"%">> \o termino \o <<"%">>

\* The WHERE clause of the query, for one row.
Coincide(fila, termino) ==
    \/ LIKE(LOWER(fila.nombre), LOWER(Patron(termino)))
    \/ LIKE(LOWER(fila.sku), LOWER(Patron(termino)))
    \/ LIKE(LOWER(fila.categoria), LOWER(Patron(termino)))

\* The CASE of the ORDER BY clause; its first parameter is termino.lower().
Rango(fila, termino) ==
    IF LOWER(fila.sku) = LOWER(lower(termino)) THEN 0
    ELSE IF LIKE(LOWER(fila.nombre), LOWER(Patron(termino))) THEN 1
    ELSE 2

\* a < b for two texts in the BINARY collation (memcmp of the encodings).
RECURSIVE MenorTexto(_, _)
MenorTexto(a, b) ==
    IF b = <<>> THEN FALSE
    ELSE IF a = <<>> THEN TRUE
    ELSE IF Head(a) = Head(b) THEN MenorTexto(Tail(a), Tail(b))
    ELSE Codigo(Head(a)) < Codigo(Head(b))

\* The row i sorts strictly before the row j under "ORDER BY CASE ..., nombre".
Antes(prods, termino, i, j) ==
    \/ Rango(prods[i], termino) < Rango(prods[j], termino)
    \/ /\ Rango(prods[i], termino) = Rango(prods[j], termino)
       /\ MenorTexto(prods[i].nombre, prods[j].nombre)

\* The orders in which the query may deliver the rows ids: SQL leaves the
\* order of rows that tie on every ORDER BY term to the engine.
RECURSIVE Ordenar(_, _, _)
Ordenar(prods, termino, ids) ==
    IF ids = {} THEN {<<>>}
    ELSE UNION {{<<m>> \o r : r \in Ordenar(prods, termino, ids \ {m})} :
                m \in {i \in ids : \A j \in ids : ~Antes(prods, termino, j, i)}}

Primeros(r, n) == SubSeq(r, 1, IF Len(r) < n THEN Len(r) ELSE n)

\* RepositorioProducto.buscar_para_venta: the sequences of product ids the
\* query may return.
buscar_para_venta(prods, termino) ==
    {Primeros(r, Limite) :
        r \in Ordenar(prods, termino,
                      {id \in DOMAIN prods : Coincide(prods[id], termino)})}

\* "if len(termino) < 2: return []"
TerminoCorto(termino) == Len(termino) < 2

\* ServicioProducto.buscar
SP_buscar(termino) ==
    /\ pv = Idle
    /\ antes' = Foto(termino)
    /\ IF TerminoCorto(termino)
       THEN ret' = [op |-> "SP.buscar", fin |-> TRUE, exito |-> TRUE,
                    valor |-> <<>>, lecturas |-> 0]
       ELSE \E r \in buscar_para_venta(productos, termino) :
               ret' = [op |-> "SP.buscar", fin |-> TRUE, exito |-> TRUE,
                       valor |-> r, lecturas |-> 1]
    /\ UNCHANGED <<productos, categorias, sigProd, ventas, detalles,
                   movimientos, reloj, tz, pv, dlg, sug, alDia>>

\* ServicioPOS.buscar_productos
POS_buscar_productos(termino) ==
    /\ pv = Idle
    /\ antes' = Foto(termino)
    /\ IF TerminoCorto(termino)
       THEN ret' = [op |-> "POS.buscar_productos", fin |-> TRUE,
                    exito |-> TRUE, valor |-> <<>>, lecturas |-> 0]
       ELSE \E r \in buscar_para_venta(productos, termino) :
               ret' = [op |-> "POS.buscar_productos", fin |-> TRUE,
                       exito |-> TRUE, valor |-> r, lecturas |-> 1]
    /\ UNCHANGED <<productos, categorias, sigProd, ventas, detalles,
                   movimientos, reloj, tz, pv, dlg, sug, alDia>>

\* Rows of small catalogs: (sku, nombre, categoria), SKUs as agregar stores
\* them (upper case).
FilasBusqueda ==
    {Producto(f[1], f[2], 1, 1, 5, f[3]) : f \in
        {<< <<"B", "1">>,      <<"N~", "1", "a">>, <<"S">> >>,
         << <<"N~", "1">>,     <<"s", "a">>,       <<"S">> >>,
         << <<"B", "2">>,      <<"a", "b">>,       <<"S">> >>,
         << <<"A", "_", "1">>, <<"b", "a">>,       <<"L">> >>,
         << <<"S", "1">>,      <<"B", "a", "_">>,  <<"a", "b">> >>}}

\* The catalogs of up to MaxCatalogo of these rows, no SKU twice.
CatalogosChicos ==
    {c \in SeqsUpTo(FilasBusqueda, MaxCatalogo) :
        \A i, j \in 1..Len(c) : i # j => c[i].sku # c[j].sku}

\* A catalog of more rows than the limit, all under one category.
CatalogoGrande ==
    [i \in 1..(Limite + 1) |->
        Producto(<<"E">> \o Formato03d(i), <<"e">> \o Formato03d(Limite + 1 - i),
                 1, 1, 5, <<"E">>)]

\* The terms typed in the search boxes.
Terminos ==
    {<<>>, <<"b">>, <<"b", "1">>, <<"B", "2">>, <<"a", "b">>, <<"s", "a">>,
     <<"e", "0">>, <<"l", "l">>, <<"N~", "1">>, <<"n~", "1">>,
     <<"a", "_">>, <<"_", "_">>, <<"%", "%">>}

InitBusqueda ==
    /\ InitComun
    /\ productos \in CatalogosChicos \cup {CatalogoGrande}
    /\ categorias = <<>>
    /\ sigProd = Len(productos) + 1
    /\ tz = 0
    /\ antes = Foto(<<>>)

NextBusqueda ==
    \/ \E termino \in Terminos : SP_buscar(termino)
    \/ \E termino \in Terminos : POS_buscar_productos(termino)

SpecBusqueda == InitBusqueda /\ [][NextBusqueda]_vars

(***************************************************************************)
(* Properties of the search.                                               *)
(***************************************************************************)
EsBusqueda == ret.op \in {"SP.buscar", "POS.buscar_productos"}

\* t occurs in s as a run of consecutive characters.
Contiene(s, t) ==
    \E k \in 0..(Len(s) - Len(t)) : SubSeq(s, k + 1, k + Len(t)) = t

\* ... letters compared without regard to case.
ContieneSinCaso(s, t) == Contiene(lower(s), lower(t))

\* The rank tier of a row for a term, as the ordering is specified.
Nivel(fila, termino) ==
    IF lower(fila.sku) = lower(termino) THEN 0
    ELSE IF ContieneSinCaso(fila.nombre, termino) THEN 1
    ELSE 2

\* C12: the sequence a search returns is ordered by rank tier (SKU equal to
\* the term ignoring case, then term contained in the name, then the rest)
\* and within a tier by name; so a product whose SKU is exactly the term comes
\* first.
C12_OrdenPorNivelYNombre ==
    (EsBusqueda /\ ~TerminoCorto(antes.arg)) =>
       LET r == ret.valor
           t == antes.arg
       IN  /\ \A i, j \in 1..Len(r) :
                 i < j =>
                    \/ Nivel(productos[r[i]], t) < Nivel(productos[r[j]], t)
                    \/ /\ Nivel(productos[r[i]], t) = Nivel(productos[r[j]], t)
                       /\ ~MenorTexto(productos[r[j]].nombre,
                                      productos[r[i]].nombre)
           /\ \A id \in DOMAIN productos :
                 productos[id].sku = t => (r # <<>> /\ r[1] = id)

\* C13: a term of fewer than 2 characters gives the empty sequence without a
\* query; otherwise at most 10 products come back, each containing the term,
\* ignoring case, in its name, SKU or category label, and none when nothing
\* matches; the store is left as it was.
C13_BusquedaAcotadaYPertinente ==
    EsBusqueda =>
       /\ TerminoCorto(antes.arg) => (ret.valor = <<>> /\ ret.lecturas = 0)
       /\ Len(ret.valor) <= 10
       /\ \A i \in 1..Len(ret.valor) :
             LET fila == productos[ret.valor[i]]
             IN  \/ ContieneSinCaso(fila.nombre, antes.arg)
                 \/ ContieneSinCaso(fila.sku, antes.arg)
                 \/ ContieneSinCaso(fila.categoria, antes.arg)
       /\ productos = antes.productos

(***************************************************************************)
(* Categories: ServicioCategoria over RepositorioCategoria.  The rows are  *)
(* never deleted, so the row of the category id is categorias[id].         *)
(***************************************************************************)
MaxCategorias == 3   \* rows of categorias

\* str.isalpha(): not empty and every character a letter.
isalpha(s) ==
    /\ s # <<>>
    /\ \A i \in 1..Len(s) :
          EsMayusASCII(s[i]) \/ EsMinusASCII(s[i]) \/ s[i] \in {"N~", "n~"}

\* SELECT * FROM categorias WHERE prefijo = ?   with  prefijo.upper()
obtener_por_prefijo(cats, prefijo) ==
    {c \in DOMAIN cats : cats[c].prefijo = upper(prefijo)}

\* ServicioCategoria.validar_prefijo
validar_prefijo(cats, prefijo) ==
    /\ prefijo # <<>>
    /\ ~(Len(upper(prefijo)) > 5)
    /\ isalpha(upper(prefijo))
    /\ obtener_por_prefijo(cats, upper(prefijo)) = {}

\* The loop of agregar over obtener_todas(solo_activas=False).
NombreRepetido(cats, nombre) ==
    \E c \in DOMAIN cats : upper(cats[c].nombre) = upper(nombre)

\* Faulty variant: agregar without its check of the name and without the
\* constraint on the name.
agregar_aceptado_sin_nombre(cats, nombre, prefijo) ==
    validar_prefijo(cats, prefijo)

\* ServicioCategoria.agregar stores the category: the name is new, the prefix
\* is valid and the INSERT meets the UNIQUE constraints.
agregar_aceptado(cats, nombre, prefijo) ==
    /\ ~NombreRepetido(cats, nombre)
    /\ validar_prefijo(cats, prefijo)
    /\ CategoriaUnica(cats, 0, Categoria(nombre, prefijo))

\* ServicioCategoria.agregar
SC_agregar(nombre, prefijo) ==
    /\ pv = Idle
    /\ antes' = Foto([nombre |-> nombre, prefijo |-> prefijo])
    /\ IF agregar_aceptado(categorias, nombre, prefijo)
       THEN /\ Len(categorias) < MaxCategorias
            /\ categorias' = Append(categorias, Categoria(nombre, prefijo))
            /\ ret' = Retorno("SC.agregar", TRUE, 0,
                              IF NombreRepetido(categorias, nombre) THEN 1 ELSE 2,
                              1)
       ELSE /\ categorias' = categorias
            /\ ret' = Retorno("SC.agregar", FALSE, 0,
                              IF NombreRepetido(categorias, nombre) THEN 1 ELSE 2,
                              0)
    /\ UNCHANGED <<productos, sigProd, ventas, detalles, movimientos, reloj,
                   tz, pv, dlg, sug, alDia>>

\* Faulty variant: the UPDATE without its WHERE clause.
eliminar_sin_where(cats, categoria_id) ==
    [c \in DOMAIN cats |-> [cats[c] EXCEPT !.activo = FALSE]]

\* UPDATE categorias SET activo = 0 WHERE id = ?
eliminar(cats, categoria_id) ==
    [c \in DOMAIN cats |->
        IF c = categoria_id THEN [cats[c] EXCEPT !.activo = FALSE] ELSE cats[c]]

\* ServicioCategoria.eliminar
SC_eliminar(categoria_id) ==
    /\ pv = Idle
    /\ antes' = Foto(categoria_id)
    /\ categorias' = eliminar(categorias, categoria_id)
    /\ ret' = Retorno("SC.eliminar", categoria_id \in DOMAIN categorias, 0, 0, 1)
    /\ UNCHANGED <<productos, sigProd, ventas, detalles, movimientos, reloj,
                   tz, pv, dlg, sug, alDia>>

\* Names and prefixes the category dialogs may send.
NombresCategoria == {<<"B">>, <<"b">>, <<"S">>}

PrefijosCategoria ==
    {<<>>, <<"B">>, <<"b">>, <<"S">>, <<"_">>, <<"N~">>,
     <<"A", "B", "C", "E", "L", "N">>}

InitCategorias ==
    /\ InitComun
    /\ categorias = <<Categoria(<<"B">>, <<"B">>)>>
    /\ productos = (1 :> Producto(BEB001, <<"C">>, 1, 1, 1, <<"B">>))
    /\ sigProd = 2
    /\ tz = 0
    /\ antes = Foto(<<>>)

NextCategorias ==
    \/ \E nombre \in NombresCategoria, prefijo \in PrefijosCategoria :
          SC_agregar(nombre, prefijo)
    \/ \E c \in 1..MaxCategorias :
          \E nombre \in NombresCategoria, prefijo \in PrefijosCategoria :
             SC_actualizar(c, nombre, prefijo)
    \/ \E c \in 1..MaxCategorias : SC_eliminar(c)

SpecCategorias == InitCategorias /\ [][NextCategorias]_vars

(***************************************************************************)
(* Properties of the categories.                                           *)
(***************************************************************************)
\* C14: ServicioCategoria.eliminar only sets the active flag of that category
\* to false; every product row, those labelled with the category's name
\* included, is unchanged and still returned by obtener_por_id,
\* obtener_por_sku and the search.
C14_EliminarSoloDesactiva ==
    ret.op = "SC.eliminar" =>
       /\ DOMAIN categorias = DOMAIN antes.categorias
       /\ \A c \in DOMAIN categorias :
             categorias[c] =
                IF c = antes.arg
                THEN [antes.categorias[c] EXCEPT !.activo = FALSE]
                ELSE antes.categorias[c]
       /\ productos = antes.productos
       /\ \A id \in DOMAIN antes.productos :
             /\ obtener_por_id(productos, id) = antes.productos[id]
             /\ obtener_por_sku(productos, antes.productos[id].sku) = {id}
       /\ \A termino \in Terminos :
             buscar_para_venta(productos, termino)
                = buscar_para_venta(antes.productos, termino)

\* A category whose name labels a product was deactivated while another
\* category stays active.
C14_Witness ==
    /\ ret.op = "SC.eliminar" /\ ret.exito
    /\ ~categorias[antes.arg].activo
    /\ \E id \in DOMAIN productos :
          productos[id].categoria = categorias[antes.arg].nombre
    /\ \E c \in DOMAIN categorias : categorias[c].activo

\* C15: ServicioCategoria.agregar rejects a name that equals, ignoring case,
\* the name of an existing category, active or not, and leaves the table as
\* it was.
C15_NombreRepetidoRechazado ==
    (/\ ret.op = "SC.agregar"
     /\ \E c \in DOMAIN antes.categorias :
           IgualSinCaso(antes.categorias[c].nombre, antes.arg.nombre))
    => ~ret.exito /\ categorias = antes.categorias

\* The name of a deactivated category, typed in lower case with a valid new
\* prefix, was refused.
C15_Witness ==
    /\ ret.op = "SC.agregar" /\ ~ret.exito
    /\ validar_prefijo(antes.categorias, antes.arg.prefijo)
    /\ \E c \in DOMAIN antes.categorias :
          /\ ~antes.categorias[c].activo
          /\ antes.categorias[c].nombre # antes.arg.nombre
          /\ IgualSinCaso(antes.categorias[c].nombre, antes.arg.nombre)

\* C16: every stored category prefix is non-empty, at most 5 characters long
\* and purely alphabetic.
C16_PrefijoValido ==
    \A c \in DOMAIN categorias :
        /\ categorias[c].prefijo # <<>>
        /\ Len(categorias[c].prefijo) <= 5
        /\ isalpha(categorias[c].prefijo)

\* C17: no two categories hold prefixes that are equal ignoring case, and an
\* add or update whose prefix equals, ignoring case, the prefix of another
\* category fails and leaves the table as it was.
C17_PrefijoUnicoSinCaso ==
    /\ \A c, d \in DOMAIN categorias :
          c # d => ~IgualSinCaso(categorias[c].prefijo, categorias[d].prefijo)
    /\ (/\ ret.op = "SC.agregar"
        /\ \E c \in DOMAIN antes.categorias :
              IgualSinCaso(antes.categorias[c].prefijo, antes.arg.prefijo))
       => ~ret.exito /\ categorias = antes.categorias
    /\ (/\ ret.op = "SC.actualizar"
        /\ \E c \in DOMAIN antes.categorias \ {antes.arg[1]} :
              IgualSinCaso(antes.categorias[c].prefijo, antes.arg[3]))
       => ~ret.exito /\ categorias = antes.categorias

\* An update of one category to the prefix of another, typed in lower case,
\* was refused.
C17_Witness ==
    /\ ret.op = "SC.actualizar" /\ ~ret.exito
    /\ antes.arg[1] \in DOMAIN antes.categorias
    /\ \E c \in DOMAIN antes.categorias \ {antes.arg[1]} :
          /\ antes.categorias[c].prefijo # antes.arg[3]
          /\ IgualSinCaso(antes.categorias[c].prefijo, antes.arg[3])
          /\ antes.categorias[c].nombre # upper(antes.arg[2])

(***************************************************************************)
(* Products: ServicioProducto.agregar, actualizar and eliminar next to the *)
(* sales.                                                                  *)
(***************************************************************************)
\* RepositorioProducto.actualizar for the row the products tab edits: the row
\* as read, with the price and the quantity of the two entry fields.
actualizar(prods, producto_id, precio, cantidad) ==
    IF producto_id \in DOMAIN prods
    THEN [prods EXCEPT ![producto_id].precio = precio,
                       ![producto_id].cantidad = cantidad]
    ELSE prods

\* ServicioProducto.actualizar, as PestanaProductos.actualizar_producto calls it.
SP_actualizar(producto_id, precio, cantidad) ==
    /\ pv = Idle
    /\ antes' = Foto(<<producto_id, precio, cantidad>>)
    /\ productos' = actualizar(productos, producto_id, precio, cantidad)
    /\ ret' = Retorno("SP.actualizar", producto_id \in DOMAIN productos, 0, 0, 1)
    /\ UNCHANGED <<categorias, sigProd, ventas, detalles, movimientos, reloj,
                   tz, pv, dlg, sug, alDia>>

\* The products a dialog may hand to agregar, every field free.
ProductosVariados(sku) ==
    {Producto(sku, nombre, cantidad, precio, 5, <<"B">>) :
        nombre \in {<<>>, <<"C">>}, cantidad \in {-1, 0, 1}, precio \in {0, 1}}

\* The prices and quantities typed in the edit fields of the products tab.
PreciosEdicion == {0, 1}

CantidadesEdicion == {-1, 1}

\* One-line carts on the first product that still fit in the run.
CarritosProductos ==
    SeqsUpTo({ItemCarrito(1, SkuItem(1), NombreItem(1), q, 1) : q \in ItemQtys},
             IF Len(detalles) < MaxLineas THEN 1 ELSE 0)

\* Adding products: every field of the product dialog is free.
NextAltas ==
    \/ SP_generar_sku_sugerido(1)
    \/ \E k \in 1..MaxDialogos :
          \E sku \in {sug[j] : j \in 1..Len(sug)}
                       \cup {lower(sug[j]) : j \in 1..Len(sug)} :
             \E producto \in ProductosVariados(sku) : SP_agregar(k, producto)
    \/ \E k \in 1..MaxDialogos : SP_cancelar(k)
    \/ \E id \in 1..MaxAltas : SP_eliminar(id)

SpecAltas == InitCatalogo /\ [][NextAltas]_vars

\* The catalog operations next to the sales.
NextProductos ==
    \/ SP_generar_sku_sugerido(1)
    \/ \E k \in 1..Len(sug) :
          \E producto \in ProductosNuevos(sug[k]) : SP_agregar(k, producto)
    \/ \E id \in 1..MaxAltas :
          \E precio \in PreciosEdicion, cantidad \in CantidadesEdicion :
             SP_actualizar(id, precio, cantidad)
    \/ \E id \in 1..MaxAltas : SP_eliminar(id)
    \/ \E items \in CarritosProductos : POS_procesar_venta(items, "EFECTIVO")
    \/ POS_actualizar_stock

SpecProductos == InitCatalogo /\ [][NextProductos]_vars

(***************************************************************************)
(* Properties of the products.                                             *)
(***************************************************************************)
\* C18: ServicioProducto.agregar fails and leaves the products as they were
\* when the SKU equals an existing SKU ignoring case, the name is empty, the
\* price is <= 0 or the quantity is < 0; in every other case it inserts
\* exactly one row, whose SKU is the upper-cased SKU given and whose other
\* fields are the ones given.
C18_AgregarValidaOInserta ==
    ret.op = "SP.agregar" =>
       LET p == antes.arg
           invalido ==
              \/ \E id \in DOMAIN antes.productos :
                    IgualSinCaso(antes.productos[id].sku, p.sku)
              \/ p.nombre = <<>>
              \/ p.precio <= 0
              \/ p.cantidad < 0
       IN  IF invalido
           THEN ~ret.exito /\ productos = antes.productos
           ELSE /\ ret.exito
                /\ \E nuevo \in DOMAIN productos \ DOMAIN antes.productos :
                      /\ DOMAIN productos = DOMAIN antes.productos \cup {nuevo}
                      /\ productos[nuevo] = [p EXCEPT !.sku = upper(p.sku)]
                /\ \A id \in DOMAIN antes.productos :
                      productos[id] = antes.productos[id]

\* A product with a new SKU, a name and a price, refused for its negative
\* quantity alone.
C18_Witness ==
    /\ ret.op = "SP.agregar" /\ ~ret.exito
    /\ antes.arg.cantidad < 0
    /\ antes.arg.nombre # <<>>
    /\ antes.arg.precio > 0
    /\ \A id \in DOMAIN antes.productos :
          ~IgualSinCaso(antes.productos[id].sku, antes.arg.sku)

\* C19: every product's quantity on hand is >= 0 and its unit price is > 0,
\* whatever catalog operations and sales came before.
C19_CantidadYPrecioValidos ==
    \A id \in DOMAIN productos :
        productos[id].cantidad >= 0 /\ productos[id].precio > 0

(***************************************************************************)
(* Properties of the recorded sale.                                        *)
(***************************************************************************)
\* The call ServicioPOS.procesar_venta returned success.
POSVentaExitosa == EsPOSVenta /\ ret.fin /\ ret.exito

\* C21: a successful procesar_venta leaves exactly one new ventas row, whose
\* id is the one returned and whose total is the sum of the subtotals of the
\* line items, and exactly one new detalles_venta row per line item, with the
\* sale id and the item's product id, SKU, name, quantity, unit price and
\* subtotal.
C21_VentaYLineasPersistidas ==
    POSVentaExitosa =>
        /\ Len(ventas) = Len(antes.ventas) + 1
        /\ SubSeq(ventas, 1, Len(antes.ventas)) = antes.ventas
        /\ ret.venta_id = Len(ventas)
        /\ ventas[ret.venta_id].total =
              Suma([i \in 1..Len(antes.arg) |-> antes.arg[i].subtotal])
        /\ Len(detalles) = Len(antes.detalles) + Len(antes.arg)
        /\ SubSeq(detalles, 1, Len(antes.detalles)) = antes.detalles
        /\ \A i \in 1..Len(antes.arg) :
              LET fila == detalles[Len(antes.detalles) + i]
                  item == antes.arg[i]
              IN  /\ fila.venta_id = ret.venta_id
                  /\ fila.producto_id = item.producto_id
                  /\ fila.sku = item.sku
                  /\ fila.nombre_producto = item.nombre
                  /\ fila.cantidad = item.cantidad
                  /\ fila.precio_unitario = item.precio_unitario
                  /\ fila.subtotal = item.subtotal

\* A successful sale of two lines, of different products.
C21_Witness ==
    /\ POSVentaExitosa
    /\ Len(antes.arg) = 2
    /\ antes.arg[1].producto_id # antes.arg[2].producto_id
    /\ ventas[ret.venta_id].total = 3

(***************************************************************************)
(* The sale records next to everything that happens after them: sales      *)
(* through both services, edits and deletions of products, edits and       *)
(* deactivations of categories, and withdrawals.                           *)
(***************************************************************************)
InitRegistro ==
    /\ InitComun
    /\ productos = (1 :> Producto(BEB001, <<"C">>, MaxQty, 1, 1, <<"B">>)) @@
                   (2 :> Producto(SNA001, <<"L">>, MaxQty, 2, 1, <<"S">>))
    /\ categorias = (1 :> Categoria(<<"B">>, <<"B">>))
    /\ sigProd = 3
    /\ tz = 0
    /\ antes = Foto(<<>>)

NextRegistro ==
    \/ \E items \in CarritosCaja : POS_procesar_venta(items, "EFECTIVO")
    \/ POS_actualizar_stock
    \/ \E items \in CarritosCaja : SV_procesar_venta(items, "EFECTIVO")
    \/ \E cantidad \in CantidadesEdicion : SP_actualizar(1, 1, cantidad)
    \/ \E id \in 1..2 : SP_eliminar(id)
    \/ \E prefijo \in PrefijosEdicion : SC_actualizar(1, <<"B">>, prefijo)
    \/ SC_eliminar(1)
    \/ POS_registrar_retiro(1)

SpecRegistro == InitRegistro /\ [][NextRegistro]_vars

\* C22: the ventas row and the detalles_venta rows of a recorded sale stay as
\* they are under every later step: product updates and deletions, category
\* changes, other sales and withdrawals.
C22_VentaRegistradaInmutable ==
    [][/\ Len(ventas') >= Len(ventas)
       /\ SubSeq(ventas', 1, Len(ventas)) = ventas
       /\ Len(detalles') >= Len(detalles)
       /\ SubSeq(detalles', 1, Len(detalles)) = detalles]_vars

\* A product with a recorded sale line has just been deleted.
C22_Witness ==
    /\ ret.op = "SP.eliminar" /\ ret.exito
    /\ \E i \in 1..Len(detalles) : detalles[i].producto_id = antes.arg
    /\ antes.arg \notin DOMAIN productos
    /\ antes.detalles # <<>>

(***************************************************************************)
(* Properties of the commit of a sale.                                     *)
(***************************************************************************)
\* The step is a turn of the decrement loop whose UPDATE touches no row.
DecrementoNulo ==
    /\ pv.pc = "stock"
    /\ ret'.escrituras = ret.escrituras + 1
    /\ ~actualizar_stock_ok(productos, pv.items[pv.idx].producto_id,
                            pv.items[pv.idx].cantidad)

\* C23: when a conditional decrement of the commit affects zero rows, the
\* whole sale is aborted: the call ends in failure and neither the sale row,
\* nor its lines, nor any decrement of it remains.
C23_DecrementoNuloAborta ==
    [][DecrementoNulo =>
          /\ pv' = Idle
          /\ ret'.fin /\ ~ret'.exito
          /\ ventas' = antes.ventas
          /\ detalles' = antes.detalles
          /\ productos' = antes.productos]_vars

(***************************************************************************)
(* ServicioProducto.actualizar_stock and the decrement on its own.         *)
(***************************************************************************)
\* ServicioProducto.actualizar_stock: the call of the repository method, whose
\* result it returns.  The caller says what becomes of pv.
SP_actualizar_stock(producto_id, cantidad) ==
    /\ antes' = Foto(<<producto_id, cantidad>>)
    /\ productos' = actualizar_stock(productos, producto_id, cantidad)
    /\ ret' = Retorno("SP.actualizar_stock",
                      actualizar_stock_ok(productos, producto_id, cantidad),
                      0, 0, 1)
    /\ UNCHANGED <<categorias, sigProd, ventas, detalles, movimientos, reloj,
                   tz, dlg, sug, alDia>>

\* The quantities a caller may hand to actualizar_stock.
CantidadesVendidas == 0..MaxQty

NextStock ==
    \/ \E items \in Carritos : POS_procesar_venta(items, "EFECTIVO")
    \/ POS_actualizar_stock
    \/ \E id \in ItemIds, cantidad \in CantidadesVendidas :
          Libre /\ SP_actualizar_stock(id, cantidad) /\ pv' = pv

SpecStock == InitVenta /\ [][NextStock]_vars

\* What actualizar_stock(id, N) returned and left agrees with the one
\* conditional update on the store it was called on.
DecrementoCondicional ==
    ret.op = "SP.actualizar_stock" =>
        LET id == antes.arg[1]
            N == antes.arg[2]
        IN  /\ IF id \in DOMAIN antes.productos
                  /\ antes.productos[id].cantidad >= N
               THEN /\ ret.exito
                    /\ DOMAIN productos = DOMAIN antes.productos
                    /\ productos[id].cantidad
                          = antes.productos[id].cantidad - N
                    /\ \A o \in DOMAIN productos \ {id} :
                          productos[o] = antes.productos[o]
                    /\ \A campo \in DOMAIN productos[id] \ {"cantidad"} :
                          productos[id][campo] = antes.productos[id][campo]
               ELSE /\ ~ret.exito
                    /\ productos = antes.productos
            /\ categorias = antes.categorias
            /\ ventas = antes.ventas
            /\ detalles = antes.detalles
            /\ movimientos = antes.movimientos

\* A turn of the decrement loop of the sale path works on the row as the
\* store holds it at that moment, not on the quantity the validation read.
DecrementoEnElAlmacen ==
    (pv.pc = "stock" /\ ret'.escrituras = ret.escrituras + 1) =>
        LET id == pv.items[pv.idx].producto_id
            N == pv.items[pv.idx].cantidad
        IN  IF id \in DOMAIN productos /\ productos[id].cantidad >= N
            THEN productos' = [productos EXCEPT ![id].cantidad = @ - N]
            ELSE productos' = productos

\* C24: actualizar_stock(id, N) is one conditional update evaluated by the
\* store: if the product exists and its quantity is >= N the quantity becomes
\* quantity - N and the call returns True, otherwise it returns False and no
\* row changes; the sale path decrements through it, never by writing back a
\* quantity it read before.
C24_DecrementoCondicionalUnico ==
    []DecrementoCondicional /\ [][DecrementoEnElAlmacen]_vars

\* actualizar_stock has refused to take a product that exists below zero.
C24_Witness ==
    /\ ret.op = "SP.actualizar_stock" /\ ~ret.exito
    /\ antes.arg[1] \in DOMAIN productos
    /\ productos[antes.arg[1]].cantidad = 1
    /\ antes.arg[2] = 2

(***************************************************************************)
(* Two terminals on the same store file.  ServicioPOS.procesar_venta at    *)
(* the second terminal runs from start to end between two repository calls *)
(* of the sale in progress at the first one.                               *)
(***************************************************************************)
\* The loop "for item in items: actualizar_stock(...)" from start to end.
RECURSIVE DecrementarTodos(_, _)
DecrementarTodos(prods, items) ==
    IF items = <<>> THEN prods
    ELSE DecrementarTodos(
            actualizar_stock(prods, Head(items).producto_id,
                             Head(items).cantidad),
            Tail(items))

\* ServicioPOS.procesar_venta at the other terminal, while the sale of this
\* one is between its insert and the end of its decrements.
Otra_procesar_venta(items, metodo_pago) ==
    /\ pv.pc = "stock"
    /\ ~CarritoVacio(items)
    /\ validar(productos, items) = 0
    /\ ventas' = Append(ventas,
                     FilaVenta(TotalCarrito(items), metodo_pago, reloj))
    /\ detalles' = detalles \o FilasDetalle(items, Len(ventas) + 1)
    /\ productos' = DecrementarTodos(productos, items)
    /\ UNCHANGED <<categorias, sigProd, movimientos, reloj, tz, pv, dlg, sug,
                   alDia, ret, antes>>

NextConcurrente ==
    \/ \E items \in Carritos : POS_procesar_venta(items, "EFECTIVO")
    \/ POS_actualizar_stock
    \/ \E items \in Carritos : Otra_procesar_venta(items, "EFECTIVO")

SpecConcurrente == InitVenta /\ [][NextConcurrente]_vars

\* The products whose decrement by the sale in progress is still to come.
PorDecrementar ==
    IF pv.pc = "stock"
    THEN {pv.items[i].producto_id : i \in pv.idx..Len(pv.items)}
    ELSE {}

\* No step but the sale's own decrements touches, between the validation of
\* the sale in progress and its decrement of a product, the row of that
\* product.
SinDecrementoAjeno ==
    (pv.pc = "stock" /\ ret' = ret) =>
        \A id \in PorDecrementar \cap DOMAIN productos :
            /\ id \in DOMAIN productos'
            /\ productos'[id].cantidad = productos[id].cantidad

\* No state of the store holds the row of a sale whose decrements are still
\* to come.
VentaVisibleConSusDecrementos ==
    pv.pc = "stock" => pv.venta_id \notin 1..Len(ventas)

\* C25: each sale commit is one all-or-nothing transaction: between the
\* validation read of a product by a sale and that sale's own decrement of it
\* no other sale decrements the product, and the insert of the sale and all
\* its decrements become visible together or not at all.
C25_VentaEsUnaTransaccion ==
    []VentaVisibleConSusDecrementos /\ [][SinDecrementoAjeno]_vars

(***************************************************************************)
(* Who lowers a quantity.                                                  *)
(***************************************************************************)
\* The step is a turn of the decrement loop of ServicioPOS.procesar_venta, for
\* a sale whose row is in ventas.
DecrementoDeVentaRegistrada ==
    /\ pv.pc = "stock"
    /\ ret.op = "POS.procesar_venta"
    /\ ret'.op = "POS.procesar_venta"
    /\ ret'.escrituras = ret.escrituras + 1
    /\ pv.venta_id \in 1..Len(ventas)

\* C26: a product's quantity goes down only in a step of the sale commit of
\* ServicioPOS.procesar_venta, for a sale that is recorded; no other operation
\* lowers it.
C26_SoloLaVentaDecrementa ==
    [][(\E id \in DOMAIN productos \cap DOMAIN productos' :
           productos'[id].cantidad < productos[id].cantidad)
       => DecrementoDeVentaRegistrada]_vars

(***************************************************************************)
(* The availability value of the cash tab.                                 *)
(***************************************************************************)
\* C27: the value the withdrawal dialog of the cash tab checks the amount
\* against is the day's sales total minus the day's withdrawals total, read
\* when the dialog opens; a withdrawal is recorded through the dialog only
\* with 0 < amount <= that value.
C27_DisponibleDeCajaEsSaldo ==
    [][/\ (~dlg.abierto /\ dlg'.abierto) =>
             dlg'.disponible
                = TotalVentas(obtener_ventas_dia(ventas, Hoy(reloj)))
                     - total_retiros_dia(movimientos, Hoy(reloj))
       /\ (dlg.abierto /\ movimientos' # movimientos) =>
             /\ 0 < movimientos'[Len(movimientos')].monto
             /\ movimientos'[Len(movimientos')].monto <= dlg.disponible]_vars

(***************************************************************************)
(* The checkout tab (PestanaVentas.procesar_pago): the flow the program    *)
(* wires up, over ServicioProducto and ServicioVenta.                      *)
(***************************************************************************)
\* The carts CarritoWidget can hold: agregar merges the lines of one product
\* and BuscadorPOS.agregar_al_carrito refuses quantities <= 0.
CarritosPago ==
    {c \in SeqsUpTo({ItemCarrito(id, SkuItem(id), NombreItem(id), q, id) :
                        id \in ItemIds, q \in 1..MaxItemQty}, 2) :
        \A i, j \in 1..Len(c) : i # j => c[i].producto_id # c[j].producto_id}

\* procesar_pago up to the payment dialog: the empty-cart check and the loop
\* "Verificar stock nuevamente".
Pago_procesar_pago(items) ==
    /\ Libre
    /\ antes' = Foto(items)
    /\ IF CarritoVacio(items)
       THEN /\ ret' = Retorno("Ventas.procesar_pago", FALSE, 0, 0, 0)
            /\ pv' = pv
       ELSE IF validar(productos, items) # 0
       THEN /\ ret' = Retorno("Ventas.procesar_pago", FALSE, 0,
                              validar(productos, items), 0)
            /\ pv' = pv
       ELSE /\ ret' = [EnCurso("Ventas.procesar_pago") EXCEPT
                          !.lecturas = Len(items)]
            /\ pv' = [pc |-> "dialogo", items |-> items, idx |-> 1,
                      venta_id |-> 0, inicio |-> productos]
    /\ UNCHANGED <<productos, categorias, sigProd, ventas, detalles,
                   movimientos, reloj, tz, dlg, sug, alDia>>

\* The payment dialog is closed without a result: nothing else happens.
Pago_cancelar ==
    /\ pv.pc = "dialogo"
    /\ pv' = Idle
    /\ ret' = Retorno("Ventas.procesar_pago", FALSE, 0, ret.lecturas, 0)
    /\ UNCHANGED <<productos, categorias, sigProd, ventas, detalles,
                   movimientos, reloj, tz, dlg, sug, alDia, antes>>

\* The payment is confirmed; one turn of the loop "for item in items:
\* self.servicio_producto.actualizar_stock(...)", whose result is dropped.
Pago_actualizar_stock ==
    /\ pv.pc \in {"dialogo", "pago"}
    /\ SP_actualizar_stock(pv.items[pv.idx].producto_id,
                           pv.items[pv.idx].cantidad)
    /\ pv' = IF pv.idx = Len(pv.items)
             THEN [pv EXCEPT !.pc = "registro"]
             ELSE [pv EXCEPT !.pc = "pago", !.idx = @ + 1]

\* After the loop: ServicioVenta.procesar_venta records the sale.
Pago_procesar_venta(metodo_pago) ==
    /\ pv.pc = "registro"
    /\ antes' = Foto(pv.items)
    /\ ventas' = Append(ventas,
                     FilaVenta(TotalCarrito(pv.items), metodo_pago, reloj))
    /\ detalles' = detalles \o FilasDetalle(pv.items, Len(ventas) + 1)
    /\ ret' = Retorno("SV.procesar_venta", TRUE, Len(ventas) + 1, 0, 1)
    /\ pv' = Idle
    /\ UNCHANGED <<productos, categorias, sigProd, movimientos, reloj, tz,
                   dlg, sug, alDia>>

\* registrar_venta raises: ServicioVenta.procesar_venta returns the error and
\* procesar_pago shows it.
Pago_procesar_venta_error ==
    /\ pv.pc = "registro"
    /\ antes' = Foto(pv.items)
    /\ ret' = Excepcion(Retorno("SV.procesar_venta", FALSE, 0, 0, 0))
    /\ pv' = Idle
    /\ UNCHANGED <<productos, categorias, sigProd, ventas, detalles,
                   movimientos, reloj, tz, dlg, sug, alDia>>

NextPago ==
    \/ \E items \in CarritosPago : Pago_procesar_pago(items)
    \/ Pago_cancelar
    \/ Pago_actualizar_stock
    \/ Pago_procesar_venta("EFECTIVO")
    \/ Pago_procesar_venta_error

SpecPago == InitVenta /\ [][NextPago]_vars

\* C28: in the checkout flow of the program, the quantities of the products
\* of a cart go down only if the sale of the cart is recorded, and a recorded
\* sale has the quantity of each of its lines taken from the stock: when the
\* recording fails, every quantity is what it was when the checkout began.
C28_PagoConsistente ==
    [][pv.pc = "registro" =>
          IF ret'.exito
          THEN \A id \in DOMAIN pv.inicio :
                  pv.inicio[id].cantidad - productos'[id].cantidad
                     = CantidadEnLineas(detalles', ret'.venta_id, id)
          ELSE productos' = pv.inicio]_vars

(***************************************************************************)
(* The products a search hands back (the objects built from the rows of    *)
(* the query) and their low-stock status.                                  *)
(***************************************************************************)
\* Producto.tiene_stock_bajo
tiene_stock_bajo(p) == p.cantidad <= p.stock_minimo

\* "stock_minimo=5" in the Producto built from a row of the search.
StockMinimoBusqueda == 5

\* The Producto buscar_para_venta builds from the row of the product id: the
\* query selects id, sku, nombre, precio, cantidad and categoria only.
ProductoDeBusqueda(prods, id) ==
    [id |-> id, sku |-> prods[id].sku, nombre |-> prods[id].nombre,
     cantidad |-> prods[id].cantidad, precio |-> prods[id].precio,
     stock_minimo |-> StockMinimoBusqueda, categoria |-> prods[id].categoria]

\* BuscadorPOS._buscar: the products kept in self.resultados, from
\* ServicioProducto.buscar.
Buscador_buscar(termino) ==
    /\ pv = Idle
    /\ antes' = Foto(termino)
    /\ IF TerminoCorto(termino)
       THEN ret' = [op |-> "Buscador._buscar", fin |-> TRUE, exito |-> TRUE,
                    valor |-> <<>>, lecturas |-> 0]
       ELSE \E r \in buscar_para_venta(productos, termino) :
               ret' = [op |-> "Buscador._buscar", fin |-> TRUE,
                       exito |-> TRUE,
                       valor |-> [i \in 1..Len(r) |->
                                    ProductoDeBusqueda(productos, r[i])],
                       lecturas |-> 1]
    /\ UNCHANGED <<productos, categorias, sigProd, ventas, detalles,
                   movimientos, reloj, tz, pv, dlg, sug, alDia>>

\* The minimum-stock thresholds typed in the product dialog.
StocksMinimos == {0, 1, StockMinimoBusqueda}

\* The terms typed in the search box of the checkout tab.
TerminosBuscador == {<<"b">>, <<"b", "e">>, <<"0", "0">>, <<"s", "n">>}

InitBuscador ==
    /\ InitComun
    /\ \E q1, q2 \in 0..MaxQty, m1, m2 \in StocksMinimos :
          productos = (1 :> Producto(BEB001, <<"C">>, q1, 1, m1, <<"B">>)) @@
                      (2 :> Producto(SNA001, <<"L">>, q2, 2, m2, <<"S">>))
    /\ categorias = <<>>
    /\ sigProd = 3
    /\ tz = 0
    /\ antes = Foto(<<>>)

NextBuscador ==
    \/ \E termino \in TerminosBuscador : Buscador_buscar(termino)
    \/ \E items \in CarritosPago : Pago_procesar_pago(items)
    \/ Pago_cancelar
    \/ Pago_actualizar_stock
    \/ Pago_procesar_venta("EFECTIVO")

SpecBuscador == InitBuscador /\ [][NextBuscador]_vars

\* C29: every product a search returns carries the values of its stored row,
\* the minimum-stock threshold among them, so its low-stock status is the
\* one of the same product fetched with obtener_por_id.
C29_BusquedaConservaStockBajo ==
    ret.op = "Buscador._buscar" =>
        \A i \in 1..Len(ret.valor) :
            LET p == ret.valor[i]
                almacenado == obtener_por_id(antes.productos, p.id)
            IN  /\ p.sku = almacenado.sku
                /\ p.nombre = almacenado.nombre
                /\ p.cantidad = almacenado.cantidad
                /\ p.precio = almacenado.precio
                /\ p.categoria = almacenado.categoria
                /\ p.stock_minimo = almacenado.stock_minimo
                /\ tiene_stock_bajo(p) = tiene_stock_bajo(almacenado)

(***************************************************************************)
(* Deactivated categories.                                                 *)
(***************************************************************************)
\* Faulty variant: the query without "WHERE activo = 1".
obtener_todas_sin_filtro(cats) == DOMAIN cats

\* RepositorioCategoria.obtener_todas() with solo_activas=True, its default:
\* the ids of the rows of SELECT * FROM categorias WHERE activo = 1.
obtener_todas(cats) == {c \in DOMAIN cats : cats[c].activo}

\* ServicioCategoria.obtener_todas
SC_obtener_todas ==
    /\ pv = Idle
    /\ antes' = Foto(<<>>)
    /\ ret' = [op |-> "SC.obtener_todas", fin |-> TRUE, exito |-> TRUE,
               valor |-> obtener_todas(categorias), lecturas |-> 1]
    /\ UNCHANGED <<productos, categorias, sigProd, ventas, detalles,
                   movimientos, reloj, tz, pv, dlg, sug, alDia>>

NextBajas ==
    \/ \E nombre \in NombresCategoria, prefijo \in PrefijosCategoria :
          SC_agregar(nombre, prefijo)
    \/ \E c \in 1..MaxCategorias :
          \E nombre \in NombresCategoria, prefijo \in PrefijosCategoria :
             SC_actualizar(c, nombre, prefijo)
    \/ \E c \in 1..MaxCategorias : SC_eliminar(c)
    \/ SC_obtener_todas

SpecBajas == InitCategorias /\ [][NextBajas]_vars

\* The categories that are inactive.
Inactivas(cats) == {c \in DOMAIN cats : ~cats[c].activo}

\* No step makes an inactive category active or removes its row.
BajaPermanente ==
    \A c \in Inactivas(categorias) :
        c \in DOMAIN categorias' /\ ~categorias'[c].activo

\* The list of obtener_todas() holds no inactive category, and a category
\* added holds neither the name nor the prefix of an inactive one.
BajaNoListadaYReservada ==
    /\ ret.op = "SC.obtener_todas" =>
          ret.valor \cap Inactivas(categorias) = {}
    /\ (ret.op = "SC.agregar" /\ ret.exito) =>
          \A c \in Inactivas(antes.categorias) :
             /\ ~IgualSinCaso(antes.categorias[c].nombre, antes.arg.nombre)
             /\ ~IgualSinCaso(antes.categorias[c].prefijo, antes.arg.prefijo)
    /\ \A c \in Inactivas(categorias) :
          \A d \in DOMAIN categorias \ {c} :
             /\ ~IgualSinCaso(categorias[c].nombre, categorias[d].nombre)
             /\ ~IgualSinCaso(categorias[c].prefijo, categorias[d].prefijo)

\* C30: once ServicioCategoria.eliminar has set a category inactive, no call
\* of agregar, actualizar or eliminar makes it active again, obtener_todas()
\* does not list it, and no new category takes its name or its prefix.
C30_BajaPermanenteYReservada ==
    []BajaNoListadaYReservada /\ [][BajaPermanente]_vars

\* The categories were listed while one of them is inactive, under a name
\* and a prefix it was given after its deactivation, and another is active.
C30_Witness ==
    /\ ret.op = "SC.obtener_todas"
    /\ ret.valor # {}
    /\ 1 \in Inactivas(categorias)
    /\ categorias[1].nombre = <<"S">>
    /\ categorias[1].prefijo = <<"S">>

====
